---- MODULE Spec2Model ----
(***************************************************************************)
(* A model of the in-memory retrieval index of backend/app.py: the class   *)
(* ESGIndex (chunker, embedding, index append, chunk records, reports,     *)
(* search) and the threads of the web server that call it.                 *)
(*                                                                         *)
(* Text is a sequence of one-character strings.  A report id is the string *)
(* the code formats.  An embedding is an integer vector standing for its   *)
(* direction; the embedding service itself is outside the repository and   *)
(* is modelled by RawEmbed, with the dimension and the failure of each     *)
(* call left to the environment.                                           *)
(***************************************************************************)
EXTENDS Integers, Sequences, FiniteSets, TLC

VARIABLES index, emb_dim, chunks, reports, clock, w, r, nbegun, nsucc, nsearch

vars == <<index, emb_dim, chunks, reports, clock, w, r, nbegun, nsucc, nsearch>>

----------------------------------------------------------------------------
(* Bounds of the model *)

\* scaled stand-ins for the defaults 1600 / 150 / 800 of _chunk_pages,
\* keeping  noise threshold < overlap < chunk_chars
chunk_chars == 54
overlap == 52
max_chunks == 2
\* loop iterations of the chunker that one call is followed through
MaxIter == 3
\* add_report calls begun, searches begun, the last second of the clock
MaxCalls == 2
MaxSearches == 1
MaxClock == 1

(* Program constant: the noise filter `len(chunk) > 50` *)
NoiseMin == 50

----------------------------------------------------------------------------
(* Optional values *)

None == <<>>
Some(x) == <<x>>
Val(o) == o[1]

----------------------------------------------------------------------------
(* Text *)

Whitespace == {" ", "\n"}

Rep(c, n) == [i \in 1..n |-> c]

RECURSIVE LStrip(_)
LStrip(s) ==
    IF s = <<>> THEN s
    ELSE IF Head(s) \in Whitespace THEN LStrip(Tail(s)) ELSE s

RECURSIVE RStrip(_)
RStrip(s) ==
    IF s = <<>> THEN s
    ELSE IF s[Len(s)] \in Whitespace THEN RStrip(SubSeq(s, 1, Len(s) - 1)) ELSE s

\* str.strip()
strip(s) == RStrip(LStrip(s))

\* text[a:b] for 0 <= a, b <= len(text)
Slice(s, a, b) == SubSeq(s, a + 1, b)

Min(a, b) == IF a < b THEN a ELSE b
Max(a, b) == IF a > b THEN a ELSE b

RECURSIVE Count(_, _)
Count(s, c) ==
    IF s = <<>> THEN 0
    ELSE (IF Head(s) = c THEN 1 ELSE 0) + Count(Tail(s), c)

----------------------------------------------------------------------------
(* Inputs *)

\* a page that is blank after trimming
BlankPage == Rep(" ", 2)
\* a page whose trimmed length is 1
ShortPage == <<" ", "a", "\n">>
\* a page whose trimmed length (52) is above the noise threshold and below
\* chunk_chars
MidPage == <<" ">> \o Rep("a", NoiseMin + 2) \o <<" ">>
\* a page longer than chunk_chars, with an inner blank
LongPage ==
    [i \in 1..(chunk_chars + 4) |->
        IF i = 3 THEN " " ELSE IF i % 2 = 0 THEN "b" ELSE "c"]

\* a page of two windows: the second one reaches its end
TwoWindowPage == Rep("d", chunk_chars + 2)

PageLists ==
    { <<BlankPage>>, <<ShortPage>>, <<MidPage>>, <<BlankPage, LongPage>> }

\* the page lists of the concurrent specification
PageListsConc == { <<MidPage>>, <<BlankPage, LongPage>> }

\* the page lists and the max_chunks arguments of the direct calls of
\* _chunk_pages
ChunkPages == {BlankPage, ShortPage, MidPage, LongPage, TwoWindowPage}
PageListsChunk ==
    {<<p>> : p \in ChunkPages} \cup {<<p, q>> : p, q \in ChunkPages}
Caps == {max_chunks, max_chunks + 1}

Names == {"a.txt"}

\* queries, top_k values and report_ids filters of search
Queries == { Rep("a", 16), Rep("b", 16) \o Rep("c", 16) }
TopKs == {1, 2}
Filters == { {}, {"rep_1_0"}, {"rep_2_0"} }

\* the searches of the specification of searches over up to three reports:
\* the queries are texts of chunks
QueriesSearch ==
    { strip(MidPage), strip(Slice(strip(LongPage), 0, chunk_chars)) }
FiltersSearch == { {}, {"rep_1_0"} }

QueriesConc == { Rep("a", 16) }
TopKsConc == {1}
FiltersConc == { {} }

\* report ids (the last one is the id of no report) and max_chars values of
\* preview_text
PreviewIds == {"rep_1_0", "rep_2_0", "rep_0_0"}
PreviewCuts == {0, 1, chunk_chars + 2, 2 * chunk_chars + 2}

\* dimensions the embedding service may answer with
Dims == {2, 3}
DimsConc == {2}

----------------------------------------------------------------------------
(* Embedding *)

RECURSIVE Gcd(_, _)
Gcd(a, b) == IF b = 0 THEN a ELSE Gcd(b, a % b)

RECURSIVE GcdAll(_)
GcdAll(v) == IF v = <<>> THEN 0 ELSE Gcd(Head(v), GcdAll(Tail(v)))

\* genai.embed_content: the raw embedding of a text, of dimension d.  The
\* components count letters of the text (in sixteens).
RawEmbed(text, d) ==
    SubSeq(<<Count(text, "a") \div 16, Count(text, "b") \div 16,
             Count(text, "c") \div 16>>, 1, d)

\* l2_normalize: the vector scaled to unit length; the zero vector is left
\* as it is (norm `or 1.0`).  A unit vector is kept as the smallest integer
\* vector of its direction.
l2_normalize(vec) ==
    LET g == GcdAll(vec)
    IN  IF g = 0 THEN vec ELSE [i \in 1..Len(vec) |-> vec[i] \div g]

\* _embed_text, for an answer of dimension d
embed_text(text, d) == l2_normalize(RawEmbed(text, d))

----------------------------------------------------------------------------
(* Report ids and the reports dict *)

\* f"rep_{len(self.reports) + 1}_{int(datetime.utcnow().timestamp())}"
ReportId(n, ts) == "rep_" \o ToString(n) \o "_" \o ToString(ts)

\* reports is kept in insertion order: a sequence of metas with distinct ids
RepIds(rs) == {rs[i].id : i \in 1..Len(rs)}

\* self.reports[report_id] = report_meta
DictPut(rs, meta) ==
    IF meta.id \in RepIds(rs)
    THEN [i \in 1..Len(rs) |-> IF rs[i].id = meta.id THEN meta ELSE rs[i]]
    ELSE Append(rs, meta)

----------------------------------------------------------------------------
(* State *)

\* clock is the second of the last reading of the time; the time does not
\* go back, and a reading may find it advanced
Seconds == clock..MaxClock
SameSecond == {clock}
Readings(advance) == IF advance THEN Seconds ELSE SameSecond

Writers == {"w1", "w2"}
Readers == {"r1"}

\* the store, as one value
Store == [reports |-> reports, chunks |-> chunks, index |-> index,
          emb_dim |-> emb_dim]

\* direct marks a call of _chunk_pages from outside add_report; cap is its
\* max_chunks argument; prev is the start of the window before this one on
\* the page (-1 before the page's first window)
IdleW ==
    [pc |-> "idle", direct |-> FALSE, name |-> "", pages |-> <<>>,
     report_id |-> "", cap |-> 0,
     cwp |-> <<>>, page_idx |-> 0, start |-> 0, prev |-> -1, iter |-> 0,
     embeddings |-> <<>>, k |-> 0, next_id |-> 0,
     outcome |-> "none", embed_calls |-> 0, pre |-> None]

\* op is the method a reader thread is in; out is the value list_reports or
\* preview_text returns
IdleR ==
    [pc |-> "idle", op |-> "", query |-> <<>>, top_k |-> 0, allowed |-> {},
     report_id |-> "", max_chars |-> 0, q_emb |-> <<>>, cands |-> <<>>, pos |-> 0, results |-> <<>>,
     seen_ids |-> {}, out |-> <<>>, outcome |-> "none"]

Init ==
    /\ index = None
    /\ emb_dim = None
    /\ chunks = <<>>
    /\ reports = <<>>
    /\ clock = 0
    /\ w = [t \in Writers |-> IdleW]
    /\ r = [t \in Readers |-> IdleR]
    /\ nbegun = 0
    /\ nsucc = 0
    /\ nsearch = 0

AllIdle ==
    /\ \A t \in Writers : w[t].pc = "idle"
    /\ \A t \in Readers : r[t].pc = "idle"

----------------------------------------------------------------------------
(* _chunk_pages *)

\* the first page at or after p that is not blank after trimming
\* (`if not text: continue`), or Len(pages) + 1
RECURSIVE NextPage(_, _)
NextPage(pages, p) ==
    IF p > Len(pages) THEN p
    ELSE IF strip(pages[p]) = <<>> THEN NextPage(pages, p + 1) ELSE p

\* an iteration that records the page by its 0-based index
WindowStepZeroBased(text, page, s, cs) ==
    LET n     == Len(text)
        end   == Min(s + chunk_chars, n)
        chunk == strip(Slice(text, s, end))
        cs2   == IF Len(chunk) > NoiseMin
                 THEN Append(cs, <<chunk, page - 1>>) ELSE cs
        s2    == IF end - overlap < 0 THEN 0 ELSE end - overlap
    IN  [cwp |-> cs2, start |-> s2]

\* one iteration of `while start < n`, from the window start s with the
\* chunks cs collected so far: the chunks and the next window start
WindowStep(text, page, s, cs) ==
    LET n     == Len(text)
        end   == Min(s + chunk_chars, n)
        chunk == strip(Slice(text, s, end))
        cs2   == IF Len(chunk) > NoiseMin
                 THEN Append(cs, <<chunk, page>>) ELSE cs
        s2    == IF end - overlap < 0 THEN 0 ELSE end - overlap
    IN  [cwp |-> cs2, start |-> s2]

\* the end of a call: its locals are dropped; what stays until the caller
\* has taken the result is what the caller sees (the outcome) and what the
\* call is judged by
Exit(me, kind) ==
    [IdleW EXCEPT !.pc = "done", !.outcome = kind, !.name = me.name,
                  !.report_id = me.report_id,
                  !.embed_calls = me.embed_calls,
                  !.pre = IF kind = "ok" THEN None ELSE me.pre]

\* a failed call: the exception leaves add_report
Raise(t, kind) ==
    w' = [w EXCEPT ![t] = Exit(w[t], kind)]

\* `return chunks`: to add_report (`if not chunks_with_pages: raise`, then
\* the embedding), or to the caller of a direct call, who gets the chunks
Returned(t) ==
    LET me == w[t]
    IN  IF me.direct
        THEN w' = [w EXCEPT ![t].pc = "done", ![t].outcome = "ok"]
        ELSE IF me.cwp = <<>>
        THEN Raise(t, "ValueError: No text chunks extracted")
        ELSE w' = [w EXCEPT ![t].pc = "embed"]

\* one step of _chunk_pages: a loop iteration, the move to the next page,
\* or the return
chunk_pages_step(t) ==
    /\ w[t].pc = "chunk"
    /\ LET me   == w[t]
           p    == me.page_idx
       IN  IF p > Len(me.pages)
           THEN \* `return chunks` after the last page
                Returned(t)
           ELSE LET text == strip(me.pages[p])
                IN  IF me.start < Len(text)
                    THEN IF Len(me.cwp) >= me.cap
                         THEN Returned(t)
                         ELSE /\ me.iter < MaxIter
                              /\ LET st == WindowStep(text, p, me.start, me.cwp)
                                 IN  w' = [w EXCEPT ![t].cwp = st.cwp,
                                                    ![t].start = st.start,
                                                    ![t].prev = me.start,
                                                    ![t].iter = me.iter + 1]
                    ELSE w' = [w EXCEPT
                                 ![t].page_idx = NextPage(me.pages, p + 1),
                                 ![t].start = 0,
                                 ![t].prev = -1]
    /\ UNCHANGED <<index, emb_dim, chunks, reports, clock, r, nbegun, nsucc,
                   nsearch>>

\* a call _chunk_pages(pages, max_chunks=cap) on its own
chunk_pages_call(t, pages, cap) ==
    /\ w[t].pc = "idle"
    /\ w' = [w EXCEPT ![t] =
                [IdleW EXCEPT !.pc = "chunk", !.direct = TRUE, !.pages = pages,
                              !.cap = cap,
                              !.page_idx = NextPage(pages, 1)]]
    /\ UNCHANGED <<index, emb_dim, chunks, reports, clock, r, nbegun, nsucc,
                   nsearch>>

\* the caller of a direct call has taken the chunks
chunk_pages_return(t) ==
    /\ w[t].pc = "done"
    /\ w[t].direct
    /\ w' = [w EXCEPT ![t] = IdleW]
    /\ UNCHANGED <<index, emb_dim, chunks, reports, clock, r, nbegun, nsucc,
                   nsearch>>

----------------------------------------------------------------------------
(* add_report *)

\* lines 128-131: the report id, the pages, the entry into _chunk_pages;
\* now is the second datetime.utcnow() answers with
add_report_begin(t, name, pages, now) ==
    /\ w[t].pc = "idle"
    /\ nbegun' = nbegun + 1
    /\ now \in Seconds
    /\ clock' = now
    /\ w' = [w EXCEPT ![t] =
                [IdleW EXCEPT
                    !.pc = "chunk",
                    !.name = name,
                    !.pages = pages,
                    !.report_id = ReportId(Len(reports) + 1, now),
                    !.cap = max_chunks,
                    !.page_idx = NextPage(pages, 1),
                    !.pre = Some(Store)]]
    /\ UNCHANGED <<index, emb_dim, chunks, reports, r, nsucc, nsearch>>

\* the dimension of chunk i's embedding when the service answers with d,
\* or with another dimension for the last chunk of the batch
OtherDim(d) == CHOOSE e \in Dims : e # d
DimOf(i, k, d, ragged) == IF ragged /\ i = k /\ k > 1 THEN OtherDim(d) ELSE d

\* line 136, _embed_texts: every call of the batch answers
embed_texts_ok(t, d, ragged) ==
    /\ w[t].pc = "embed"
    /\ LET k == Len(w[t].cwp)
       IN  w' = [w EXCEPT
                   ![t].pc = "init",
                   ![t].embed_calls = k,
                   ![t].embeddings =
                       [i \in 1..k |->
                           embed_text(w[t].cwp[i][1], DimOf(i, k, d, ragged))]]
    /\ UNCHANGED <<index, emb_dim, chunks, reports, clock, r, nbegun, nsucc,
                   nsearch>>

\* a failure of the service that keeps the chunks embedded before it
embed_texts_fail_partial(t, f) ==
    /\ w[t].pc = "embed"
    /\ f \in 1..Len(w[t].cwp)
    /\ w' = [w EXCEPT ![t] = Exit([w[t] EXCEPT !.embed_calls = f],
                                  "EmbeddingServiceError")]
    /\ chunks' = chunks \o
                    [i \in 1..(f - 1) |->
                        [id |-> Len(chunks) + i - 1, text |-> w[t].cwp[i][1],
                         report_id |-> w[t].report_id,
                         report_name |-> w[t].name, page |-> w[t].cwp[i][2]]]
    /\ UNCHANGED <<index, emb_dim, reports, clock, r, nbegun, nsucc, nsearch>>

\* line 136, _embed_texts: the service fails on the f-th text of the batch
embed_texts_fail(t, f) ==
    /\ w[t].pc = "embed"
    /\ f \in 1..Len(w[t].cwp)
    /\ w' = [w EXCEPT ![t] = Exit([w[t] EXCEPT !.embed_calls = f],
                                  "EmbeddingServiceError")]
    /\ UNCHANGED <<index, emb_dim, chunks, reports, clock, r, nbegun, nsucc,
                   nsearch>>

\* line 84: `if self.emb_dim is None`
init_index_check(t) ==
    /\ w[t].pc = "init"
    /\ w' = [w EXCEPT ![t].pc = IF emb_dim = None THEN "init_set" ELSE "add"]
    /\ UNCHANGED <<index, emb_dim, chunks, reports, clock, r, nbegun, nsucc,
                   nsearch>>

\* lines 85-86: emb_dim and a new, empty index of that dimension
init_index_set(t) ==
    /\ w[t].pc = "init_set"
    /\ emb_dim' = Some(Len(w[t].embeddings[1]))
    /\ index' = Some([d |-> Len(w[t].embeddings[1]), rows |-> <<>>])
    /\ w' = [w EXCEPT ![t].pc = "add"]
    /\ UNCHANGED <<chunks, reports, clock, r, nbegun, nsucc, nsearch>>

Ragged(embs) == \E i \in 1..Len(embs) : Len(embs[i]) # Len(embs[1])

\* lines 139-140: np.array(embeddings) and self.index.add(vecs)
index_add(t, oom) ==
    /\ w[t].pc = "add"
    /\ LET embs == w[t].embeddings
           ix   == Val(index)
       IN  IF Ragged(embs)
           THEN /\ Raise(t, "ValueError: inhomogeneous shape")
                /\ UNCHANGED index
           ELSE IF Len(embs[1]) # ix.d
           THEN /\ Raise(t, "AssertionError: dimension")
                /\ UNCHANGED index
           ELSE IF oom
           THEN /\ Raise(t, "MemoryError")
                /\ UNCHANGED index
           ELSE /\ index' = Some([ix EXCEPT !.rows = ix.rows \o embs])
                /\ w' = [w EXCEPT ![t].pc = "append", ![t].k = 1]
    /\ UNCHANGED <<emb_dim, chunks, reports, clock, r, nbegun, nsucc, nsearch>>

\* line 145: `"id": len(self.chunks)` is evaluated before the append
append_read_len(t) ==
    /\ w[t].pc = "append"
    /\ w' = [w EXCEPT ![t].pc = "append_do", ![t].next_id = Len(chunks)]
    /\ UNCHANGED <<index, emb_dim, chunks, reports, clock, r, nbegun, nsucc,
                   nsearch>>

\* a chunk record whose id counts from 1
ChunkRecordOneBased(me, c) ==
    [id |-> me.next_id + 1, text |-> c[1], report_id |-> me.report_id,
     report_name |-> me.name, page |-> c[2]]

\* lines 144-150: the record of the chunk c = (text, page)
ChunkRecord(me, c) ==
    [id |-> me.next_id, text |-> c[1], report_id |-> me.report_id,
     report_name |-> me.name, page |-> c[2]]

\* lines 143-151: self.chunks.append({...}) for the k-th chunk of the call
append_chunk(t, oom) ==
    /\ w[t].pc = "append_do"
    /\ LET me == w[t]
           c  == me.cwp[me.k]
       IN  IF oom
           THEN /\ Raise(t, "MemoryError")
                /\ UNCHANGED chunks
           ELSE /\ chunks' = Append(chunks, ChunkRecord(me, c))
                /\ w' = [w EXCEPT
                           ![t].k = me.k + 1,
                           ![t].pc = IF me.k = Len(me.cwp)
                                     THEN "record" ELSE "append"]
    /\ UNCHANGED <<index, emb_dim, reports, clock, r, nbegun, nsucc, nsearch>>

\* lines 153-160: the report's entry, and the return; now is the second
\* datetime.utcnow() answers with
record_report(t, now) ==
    /\ w[t].pc = "record"
    /\ now \in Seconds
    /\ clock' = now
    /\ reports' = DictPut(reports,
                     [id |-> w[t].report_id, name |-> w[t].name,
                      pages |-> Len(w[t].pages), uploaded_at |-> now])
    /\ nsucc' = nsucc + 1
    /\ w' = [w EXCEPT ![t] = Exit(w[t], "ok")]
    /\ UNCHANGED <<index, emb_dim, chunks, r, nbegun, nsearch>>

\* the handler that called add_report has taken its result or its exception
add_report_return(t) ==
    /\ w[t].pc = "done"
    /\ ~w[t].direct
    /\ w' = [w EXCEPT ![t] = IdleW]
    /\ UNCHANGED <<index, emb_dim, chunks, reports, clock, r, nbegun, nsucc,
                   nsearch>>

----------------------------------------------------------------------------
(* search *)

Dot(u, v) ==
    LET RECURSIVE S(_)
        S(i) == IF i = 0 THEN 0 ELSE u[i] * v[i] + S(i - 1)
    IN  S(Len(u))

\* the inner product of the unit vectors of directions q and v, kept as the
\* reduced fraction n2 / d of its square (no component is negative)
Score(q, v) ==
    LET n2 == Dot(q, v) * Dot(q, v)
        d  == Dot(q, q) * Dot(v, v)
        g  == Gcd(n2, d)
    IN  IF n2 = 0 THEN [n2 |-> 0, d |-> 1] ELSE [n2 |-> n2 \div g, d |-> d \div g]

ScoreGE(a, b) == a.n2 * b.d >= b.n2 * a.d

\* the label FAISS returns where the index has fewer than k rows
Pad == [idx |-> -1, score |-> [n2 |-> 0, d |-> 1]]

\* IndexFlatIP.search: the rankings of the k best rows (0-based labels),
\* best first; rows of equal score in any order
RECURSIVE Rankings(_, _, _, _)
Rankings(rows, q, S, k) ==
    IF k = 0 \/ S = {} THEN {<<>>}
    ELSE LET best == {i \in S : \A j \in S :
                         ScoreGE(Score(q, rows[i]), Score(q, rows[j]))}
         IN  UNION {{<<[idx |-> i - 1, score |-> Score(q, rows[i])]>> \o rest :
                        rest \in Rankings(rows, q, S \ {i}, k - 1)} : i \in best}

PadTo(c, k) == c \o [i \in 1..(k - Len(c)) |-> Pad]

\* a search that returns early only where there is no index
search_begin_no_chunk_test(t, query, top_k, report_ids) ==
    /\ r[t].pc = "idle"
    /\ nsearch < MaxSearches
    /\ nsearch' = nsearch + 1
    /\ r' = [r EXCEPT ![t] =
                IF index = None
                THEN [IdleR EXCEPT !.pc = "done", !.op = "search",
                                   !.outcome = "ok", !.query = query,
                                   !.top_k = top_k, !.allowed = report_ids]
                ELSE [IdleR EXCEPT !.pc = "embed", !.op = "search",
                                   !.query = query,
                                   !.top_k = top_k, !.allowed = report_ids]]
    /\ UNCHANGED <<index, emb_dim, chunks, reports, clock, w, nbegun, nsucc>>

\* lines 168-169: the early return on an empty store
search_begin(t, query, top_k, report_ids) ==
    /\ r[t].pc = "idle"
    /\ nsearch < MaxSearches
    /\ nsearch' = nsearch + 1
    /\ r' = [r EXCEPT ![t] =
                IF index = None \/ chunks = <<>>
                THEN [IdleR EXCEPT !.pc = "done", !.op = "search",
                                   !.outcome = "ok", !.query = query,
                                   !.top_k = top_k, !.allowed = report_ids]
                ELSE [IdleR EXCEPT !.pc = "embed", !.op = "search",
                                   !.query = query,
                                   !.top_k = top_k, !.allowed = report_ids]]
    /\ UNCHANGED <<index, emb_dim, chunks, reports, clock, w, nbegun, nsucc>>

\* line 171: the query's embedding, of the dimension the service answers with
search_embed_ok(t, d) ==
    /\ r[t].pc = "embed"
    /\ r' = [r EXCEPT ![t].pc = "query", ![t].q_emb = embed_text(r[t].query, d)]
    /\ UNCHANGED <<index, emb_dim, chunks, reports, clock, w, nbegun, nsucc,
                   nsearch>>

\* line 171: the service fails, and search raises
search_embed_fail(t) ==
    /\ r[t].pc = "embed"
    /\ r' = [r EXCEPT ![t].pc = "done",
                      ![t].outcome = "EmbeddingServiceError"]
    /\ UNCHANGED <<index, emb_dim, chunks, reports, clock, w, nbegun, nsucc,
                   nsearch>>

\* the return of search: the locals are dropped (the query stays with the
\* caller)
Return(me) ==
    [me EXCEPT !.pc = "done", !.outcome = "ok", !.q_emb = <<>>,
               !.cands = <<>>, !.pos = 0, !.seen_ids = {}]

\* a query of the index for top_k rows only
search_query_no_overfetch(t) ==
    /\ r[t].pc = "query"
    /\ LET me       == r[t]
           ix       == Val(index)
           search_k == me.top_k
       IN  IF Len(me.q_emb) # ix.d
           THEN r' = [r EXCEPT ![t].pc = "done", ![t].q_emb = <<>>,
                               ![t].outcome = "AssertionError: dimension"]
           ELSE \E c \in Rankings(ix.rows, me.q_emb, 1..Len(ix.rows), search_k) :
                    LET me2 == [me EXCEPT !.pc = "loop", !.pos = 1,
                                          !.cands = PadTo(c, search_k)]
                    IN  r' = [r EXCEPT ![t] =
                                 IF c = <<>> THEN Return(me2) ELSE me2]
    /\ UNCHANGED <<index, emb_dim, chunks, reports, clock, w, nbegun, nsucc,
                   nsearch>>

\* lines 173-179: search_k and self.index.search(q_vec, search_k)
search_query(t) ==
    /\ r[t].pc = "query"
    /\ LET me       == r[t]
           ix       == Val(index)
           search_k == Max(me.top_k * 3, me.top_k)
       IN  IF Len(me.q_emb) # ix.d
           THEN r' = [r EXCEPT ![t].pc = "done", ![t].q_emb = <<>>,
                               ![t].outcome = "AssertionError: dimension"]
           ELSE \E c \in Rankings(ix.rows, me.q_emb, 1..Len(ix.rows), search_k) :
                    LET me2 == [me EXCEPT !.pc = "loop", !.pos = 1,
                                          !.cands = PadTo(c, search_k)]
                    IN  r' = [r EXCEPT ![t] =
                                 IF c = <<>> THEN Return(me2) ELSE me2]
    /\ UNCHANGED <<index, emb_dim, chunks, reports, clock, w, nbegun, nsucc,
                   nsearch>>

\* a filter that lets every chunk through
FilteredOutNever(allowed, chunk) == FALSE

\* lines 179, 185: `allowed_reports and chunk["report_id"] not in
\* allowed_reports`, where an empty report_ids makes allowed_reports None
FilteredOut(allowed, chunk) ==
    allowed # {} /\ chunk.report_id \notin allowed

\* lines 181-201: one iteration of the loop over the candidates, on a label
\* that is not padding; the padding that follows it is skipped (`idx < 0`)
search_loop(t) ==
    /\ r[t].pc = "loop"
    /\ LET me     == r[t]
           cand   == me.cands[me.pos]
           inside == cand.idx < Len(chunks)
           chunk  == chunks[cand.idx + 1]
           take   == /\ inside
                     /\ ~FilteredOut(me.allowed, chunk)
                     /\ chunk.id \notin me.seen_ids
           res    == IF take
                     THEN Append(me.results,
                            [score |-> cand.score, text |-> chunk.text,
                             report_id |-> chunk.report_id,
                             report_name |-> chunk.report_name,
                             page |-> chunk.page])
                     ELSE me.results
           me2    == [me EXCEPT !.results = res, !.pos = me.pos + 1,
                                !.seen_ids = IF take THEN me.seen_ids \cup {chunk.id}
                                             ELSE me.seen_ids]
           last   == \/ take /\ Len(res) >= me.top_k
                     \/ me.pos = Len(me.cands)
                     \/ me.cands[me.pos + 1].idx < 0
       IN  r' = [r EXCEPT ![t] = IF last THEN Return(me2) ELSE me2]
    /\ UNCHANGED <<index, emb_dim, chunks, reports, clock, w, nbegun, nsucc,
                   nsearch>>

\* the handler that called search has taken its results or its exception
search_return(t) ==
    /\ r[t].pc = "done"
    /\ r' = [r EXCEPT ![t] = IdleR]
    /\ UNCHANGED <<index, emb_dim, chunks, reports, clock, w, nbegun, nsucc,
                   nsearch>>

----------------------------------------------------------------------------
(* list_reports and preview_text *)

\* a list_reports that empties the dict it has listed
list_reports_clearing(t) ==
    /\ r[t].pc = "idle"
    /\ nsearch < MaxSearches
    /\ nsearch' = nsearch + 1
    /\ r' = [r EXCEPT ![t] =
                [IdleR EXCEPT !.pc = "done", !.op = "list_reports",
                              !.outcome = "ok", !.out = reports]]
    /\ reports' = <<>>
    /\ UNCHANGED <<index, emb_dim, chunks, clock, w, nbegun, nsucc>>

\* line 204: list(self.reports.values())
list_reports(t) ==
    /\ r[t].pc = "idle"
    /\ nsearch < MaxSearches
    /\ nsearch' = nsearch + 1
    /\ r' = [r EXCEPT ![t] =
                [IdleR EXCEPT !.pc = "done", !.op = "list_reports",
                              !.outcome = "ok", !.out = reports]]
    /\ UNCHANGED <<index, emb_dim, chunks, reports, clock, w, nbegun, nsucc>>

\* a join that puts nothing between the texts
RECURSIVE JoinNoSpace(_)
JoinNoSpace(texts) ==
    IF texts = <<>> THEN <<>>
    ELSE texts[1] \o JoinNoSpace(Tail(texts))

\* " ".join(texts)
RECURSIVE Join(_)
Join(texts) ==
    IF texts = <<>> THEN <<>>
    ELSE IF Len(texts) = 1 THEN texts[1]
    ELSE texts[1] \o <<" ">> \o Join(Tail(texts))

\* lines 207-211, for max_chars >= 0
PreviewOf(cs, report_id, max_chars) ==
    LET Mine(c) == c.report_id = report_id
        chunks_for_report == SelectSeq(cs, Mine)
        text == Join([i \in 1..Len(chunks_for_report) |->
                         chunks_for_report[i].text])
    IN  IF chunks_for_report = <<>> THEN <<>>
        ELSE Slice(text, 0, Min(max_chars, Len(text)))

preview_text(t, report_id, max_chars) ==
    /\ r[t].pc = "idle"
    /\ nsearch < MaxSearches
    /\ nsearch' = nsearch + 1
    /\ r' = [r EXCEPT ![t] =
                [IdleR EXCEPT !.pc = "done", !.op = "preview_text",
                              !.outcome = "ok", !.report_id = report_id,
                              !.max_chars = max_chars,
                              !.out = PreviewOf(chunks, report_id, max_chars)]]
    /\ UNCHANGED <<index, emb_dim, chunks, reports, clock, w, nbegun, nsucc>>

----------------------------------------------------------------------------
WriterStep(t, D, advance) ==
    \/ chunk_pages_step(t)
    \/ \E d \in D, ragged \in BOOLEAN : embed_texts_ok(t, d, ragged)
    \/ \E f \in 1..max_chunks : embed_texts_fail(t, f)
    \/ init_index_check(t)
    \/ init_index_set(t)
    \/ \E oom \in BOOLEAN : index_add(t, oom)
    \/ append_read_len(t)
    \/ \E oom \in BOOLEAN : append_chunk(t, oom)
    \/ \E now \in Readings(advance) : record_report(t, now)
    \/ add_report_return(t)

ReaderStep(t, D) ==
    \/ \E d \in D : search_embed_ok(t, d)
    \/ search_embed_fail(t)
    \/ search_query(t)
    \/ search_loop(t)
    \/ search_return(t)

\* fewer than n calls of add_report have begun
CallsBelow(n) == nbegun < n

\* the threads of the server run add_report and search concurrently, all
\* within one second of the clock
Next ==
    \/ \E t \in Writers, name \in Names, pages \in PageListsConc :
            \E now \in SameSecond :
                CallsBelow(MaxCalls) /\ add_report_begin(t, name, pages, now)
    \/ \E t \in Writers : WriterStep(t, DimsConc, FALSE)
    \/ \E t \in Readers, q \in QueriesConc, k \in TopKsConc, ids \in FiltersConc :
            search_begin(t, q, k, ids)
    \/ \E t \in Readers : ReaderStep(t, DimsConc)

Spec == Init /\ [][Next]_vars

\* one call at a time: a call begins only when no other is in progress
NextSeq ==
    \/ \E name \in Names, pages \in PageLists, now \in Seconds :
            /\ AllIdle
            /\ CallsBelow(MaxCalls)
            /\ add_report_begin("w1", name, pages, now)
    \/ WriterStep("w1", Dims, TRUE)
    \/ \E q \in Queries, k \in TopKs, ids \in Filters :
            AllIdle /\ search_begin("r1", q, k, ids)
    \/ AllIdle /\ list_reports("r1")
    \/ \E id \in PreviewIds, m \in PreviewCuts :
            AllIdle /\ preview_text("r1", id, m)
    \/ ReaderStep("r1", Dims)

SpecSeq == Init /\ [][NextSeq]_vars

\* one call at a time, within one second, with one report more than MaxCalls
NextSearch ==
    \/ \E name \in Names, pages \in PageListsConc, now \in SameSecond :
            /\ AllIdle
            /\ CallsBelow(MaxCalls + 1)
            /\ add_report_begin("w1", name, pages, now)
    \/ WriterStep("w1", DimsConc, FALSE)
    \/ \E q \in QueriesSearch, k \in TopKs, ids \in FiltersSearch :
            AllIdle /\ search_begin("r1", q, k, ids)
    \/ ReaderStep("r1", Dims)

SpecSearch == Init /\ [][NextSearch]_vars

\* _chunk_pages called on its own, one call at a time
NextChunk ==
    \/ \E pages \in PageListsChunk, cap \in Caps :
            chunk_pages_call("w1", pages, cap)
    \/ chunk_pages_step("w1")
    \/ chunk_pages_return("w1")

SpecChunk == Init /\ [][NextChunk]_vars

----------------------------------------------------------------------------
(* Properties *)

IndexSize == IF index = None THEN 0 ELSE Len(Val(index).rows)

\* no add_report call is in progress
WritersIdle == \A t \in Writers : w[t].pc \in {"idle", "done"}

\* chunk i has id i (0-based) and its text is what row i of the index embeds
Coupled ==
    /\ Len(chunks) = IndexSize
    /\ \A i \in 1..Len(chunks) :
          /\ chunks[i].id = i - 1
          /\ i <= IndexSize
          /\ Val(index).rows[i] = embed_text(chunks[i].text, Val(index).d)

\* C1: within a page, whenever the loop of _chunk_pages goes round again
\* after an iteration, its window start is greater than it was in that
\* iteration (so the loop makes progress and ends).
C1_WindowStartIncreases ==
    [][\A t \in Writers :
          (/\ w[t].pc = "chunk"
           /\ w'[t].pc = "chunk"
           /\ w'[t].iter = w[t].iter + 1
           /\ w'[t].start < Len(strip(w[t].pages[w[t].page_idx])))
          => w'[t].start > w[t].start]_vars

\* C2: when _chunk_pages returns for a single page whose trimmed text is
\* non-empty and shorter than chunk_chars, the chunks are exactly the
\* trimmed text with page 1 if it is longer than 50, and none otherwise;
\* and no more than that is ever collected on the way.
SinglePageChunks(pages) ==
    LET text == strip(pages[1])
    IN  IF Len(text) > NoiseMin THEN << <<text, 1>> >> ELSE <<>>

C2_SinglePageOneChunk ==
    \A t \in Writers :
        (/\ w[t].pc \in {"chunk", "embed"}
         /\ Len(w[t].pages) = 1
         /\ strip(w[t].pages[1]) # <<>>
         /\ Len(strip(w[t].pages[1])) < chunk_chars)
        => /\ Len(w[t].cwp) <= Len(SinglePageChunks(w[t].pages))
           /\ w[t].pc = "embed" => w[t].cwp = SinglePageChunks(w[t].pages)

\* C3: when every add_report call so far has run alone and succeeded, there
\* are as many chunk records as index rows, chunk i has id i (0-based), and
\* row i is the embedding of chunk i's text.
C3_PositionRowCoupling ==
    (WritersIdle /\ nsucc = nbegun) => Coupled

\* two reports of different text are in the store, one after the other
C3_Witness ==
    /\ WritersIdle
    /\ nsucc = 2
    /\ nbegun = 2
    /\ Len(chunks) = 2 * max_chunks
    /\ chunks[1].text # chunks[Len(chunks)].text
    /\ chunks[1].report_id # chunks[Len(chunks)].report_id

\* every add_report call begun so far has succeeded or is still running
NoFailedCall ==
    nbegun = nsucc + Cardinality({t \in Writers : w[t].pc \notin {"idle", "done"}})

\* C4: while a search is between its query of the index and its return, and
\* no add_report has failed, the index holds as many vectors as there are
\* chunk records.
C4_SearchSeesEqualCounts ==
    \A t \in Readers :
        (r[t].pc \in {"query", "loop"} /\ NoFailedCall)
        => IndexSize = Len(chunks)

\* C5: after two add_report calls that ran concurrently have both returned,
\* chunk i has id i, no two chunks share an id, and row i of the index is
\* the embedding of chunk i's text.
C5_ConcurrentAddsCoupled ==
    (WritersIdle /\ nsucc = nbegun)
    => /\ Coupled
       /\ \A i, j \in 1..Len(chunks) : chunks[i].id = chunks[j].id => i = j

AfterChunkingFailures ==
    {"ValueError: inhomogeneous shape", "AssertionError: dimension",
     "MemoryError"}

\* C6: after an add_report that failed past the chunking, reports, chunks,
\* the index and emb_dim are what they were when the call began.
C6_FailedAddLeavesNoTrace ==
    \A t \in Writers :
        w[t].outcome \in AfterChunkingFailures => Store = Val(w[t].pre)

\* C7: after an add_report whose embedding call failed, on whichever chunk
\* of the batch, the call has ended with that error and reports, chunks,
\* the index and emb_dim are what they were when the call began.
C7_EmbedFailureAborts ==
    \A t \in Writers :
        w[t].outcome = "EmbeddingServiceError"
        => w[t].pc = "done" /\ Store = Val(w[t].pre)

\* the service failed on the second chunk of a batch, with a report already
\* in the store
C7_Witness ==
    \E t \in Writers :
        /\ w[t].outcome = "EmbeddingServiceError"
        /\ w[t].embed_calls = 2
        /\ chunks # <<>>
        /\ reports # <<>>

\* every page is blank or no longer than the noise threshold after trimming
ZeroUsable(pages) ==
    \A p \in 1..Len(pages) : Len(strip(pages[p])) <= NoiseMin

\* C8: an add_report whose pages yield no usable chunk looks at each page's
\* single window at most once and then fails with the empty-document error,
\* with no call of the embedding service and the store unchanged.
C8_ZeroChunksFails ==
    \A t \in Writers :
        /\ (w[t].pc = "chunk" /\ ZeroUsable(w[t].pages))
           => w[t].iter <= Len(w[t].pages)
        /\ w[t].outcome = "ValueError: No text chunks extracted"
           => w[t].embed_calls = 0 /\ Store = Val(w[t].pre)

\* C9: no two add_report calls in progress hold the same report id, and
\* reports has one entry for each successful call.
C9_ReportIdsUnique ==
    /\ \A t1, t2 \in Writers :
          (t1 # t2 /\ w[t1].pc \notin {"idle", "done"}
                    /\ w[t2].pc \notin {"idle", "done"})
          => w[t1].report_id # w[t2].report_id
    /\ Len(reports) = nsucc

\* C10: with a non-empty report_ids, every result of search (collected so
\* far or returned) has a report_id of that set.
C10_FilterRespected ==
    \A t \in Readers :
        r[t].allowed # {}
        => \A i \in 1..Len(r[t].results) :
              r[t].results[i].report_id \in r[t].allowed

\* a filtered search has returned a result while the store holds a chunk of
\* a report outside the filter
C10_Witness ==
    \E t \in Readers :
        /\ r[t].pc = "done"
        /\ r[t].outcome = "ok"
        /\ r[t].allowed # {}
        /\ r[t].results # <<>>
        /\ \E i \in 1..Len(chunks) : chunks[i].report_id \notin r[t].allowed

\* C11: a search that begins on a store with no index or with no chunk
\* record returns at once, without a call of the embedding service: it ends
\* with no error and the empty list, and reports, chunks, the index and
\* emb_dim are what they were.
C11_EmptyStoreSearch ==
    [][\A t \in Readers :
          (/\ r[t].pc = "idle"
           /\ r'[t].pc # "idle"
           /\ r'[t].op = "search"
           /\ (index = None \/ chunks = <<>>))
          => /\ r'[t].pc = "done"
             /\ r'[t].outcome = "ok"
             /\ r'[t].results = <<>>
             /\ Store' = Store]_vars

\* a search has returned on a store that has an index (left by a failed
\* first add_report) and no chunk record
C11_Witness ==
    \E t \in Readers :
        /\ r[t].pc = "done"
        /\ r[t].op = "search"
        /\ r[t].outcome = "ok"
        /\ r[t].results = <<>>
        /\ index # None
        /\ chunks = <<>>

\* the chunking without the cap in which the loop over a page ends with the
\* window that reaches the end of the page: the windows of a page from the
\* window start s on, and the windows of the pages from page p on
RECURSIVE PageWindows(_, _, _)
PageWindows(text, page, s) ==
    LET n     == Len(text)
        end   == Min(s + chunk_chars, n)
        chunk == strip(Slice(text, s, end))
        here  == IF Len(chunk) > NoiseMin THEN << <<chunk, page>> >> ELSE <<>>
    IN  IF end >= n THEN here
        ELSE here \o PageWindows(text, page, end - overlap)

RECURSIVE UncappedChunks(_, _)
UncappedChunks(pages, p) ==
    IF p > Len(pages) THEN <<>>
    ELSE (IF strip(pages[p]) = <<>> THEN <<>>
          ELSE PageWindows(strip(pages[p]), p, 0))
         \o UncappedChunks(pages, p + 1)

\* C12: _chunk_pages never returns more than max_chunks chunks, and for
\* pages whose windows, taken page by page and window by window, are more
\* than max_chunks, it returns exactly the first max_chunks of them.
C12_CapKeepsFirstWindows ==
    \A t \in Writers :
        (w[t].direct /\ w[t].pc = "done")
        => LET U == UncappedChunks(w[t].pages, 1)
           IN  /\ Len(w[t].cwp) <= w[t].cap
               /\ Len(U) > w[t].cap => w[t].cwp = SubSeq(U, 1, w[t].cap)

\* C13: on a page longer than chunk_chars, a window that follows another
\* starts chunk_chars - overlap after it, which is later, and the window it
\* follows did not reach the end of the page.
C13_WindowsAdvanceToFinal ==
    [][\A t \in Writers :
          (/\ w[t].pc = "chunk"
           /\ w'[t].pc = "chunk"
           /\ w'[t].iter = w[t].iter + 1
           /\ w[t].prev >= 0
           /\ Len(strip(w[t].pages[w[t].page_idx])) > chunk_chars)
          => /\ w[t].start = w[t].prev + chunk_chars - overlap
             /\ w[t].start > w[t].prev
             /\ w[t].prev + chunk_chars
                  < Len(strip(w[t].pages[w[t].page_idx]))]_vars

\* C14: emb_dim, once set, never changes, and an add_report that fails
\* leaves emb_dim as it was when the call began (so only a successful call
\* fixes it).
C14_EmbDimFixedOnce ==
    [][/\ emb_dim # None => emb_dim' = emb_dim
       /\ \A t \in Writers :
             (/\ w[t].pc # "done"
              /\ w'[t].pc = "done"
              /\ w'[t].outcome # "ok")
             => emb_dim' = Val(w'[t].pre).emb_dim]_vars

\* the characters of the uncut preview of report id that come before the
\* text of chunk i: the texts of the report's earlier chunks, each with the
\* space after it
RECURSIVE Before(_, _)
Before(id, i) ==
    IF i = 1 THEN 0
    ELSE Before(id, i - 1)
         + (IF chunks[i - 1].report_id = id
            THEN Len(chunks[i - 1].text) + 1 ELSE 0)

\* C15: preview_text(report_id, max_chars) returns without error; what it
\* returns is as long as max_chars allows and the report's chunk texts with
\* one space between them need, it holds the text of each chunk of the
\* report at the place the earlier chunks of the report leave it, with a
\* space before every chunk of the report but the first; for the id of no
\* chunk it is empty.
C15_PreviewText ==
    \A t \in Readers :
        (r[t].pc = "done" /\ r[t].op = "preview_text")
        => LET id    == r[t].report_id
               out   == r[t].out
               P     == {i \in 1..Len(chunks) : chunks[i].report_id = id}
               total == Before(id, Len(chunks) + 1) - 1
           IN  /\ r[t].outcome = "ok"
               /\ P = {} => out = <<>>
               /\ P # {} => Len(out) = Min(r[t].max_chars, total)
               /\ \A i \in P :
                     /\ \A k \in 1..Len(chunks[i].text) :
                           Before(id, i) + k <= Len(out)
                           => out[Before(id, i) + k] = chunks[i].text[k]
                     /\ (Before(id, i) > 0 /\ Before(id, i) <= Len(out))
                        => out[Before(id, i)] = " "

\* a preview cut inside the second chunk of its report, on a store that
\* holds chunks of another report too
C15_Witness ==
    \E t \in Readers :
        /\ r[t].pc = "done"
        /\ r[t].op = "preview_text"
        /\ Len(r[t].out) = r[t].max_chars
        /\ \E i \in 1..Len(chunks) :
              /\ chunks[i].report_id = r[t].report_id
              /\ Before(r[t].report_id, i) > 0
              /\ Before(r[t].report_id, i) < Len(r[t].out)
        /\ \E i \in 1..Len(chunks) : chunks[i].report_id # r[t].report_id

\* C16: a step of search, list_reports or preview_text, whether the call
\* returns a value or raises, leaves reports, chunks, the index and emb_dim
\* as they are.
C16_ReadersReadOnly ==
    [][r' # r => Store' = Store]_vars

\* a search has raised on a store that holds a report
C16_Witness ==
    \E t \in Readers :
        /\ r[t].pc = "done"
        /\ r[t].op = "search"
        /\ r[t].outcome \notin {"ok", "none"}
        /\ reports # <<>>
        /\ chunks # <<>>

\* the members of a ranking c whose row has a chunk record of a report the
\* filter lets through (every report, where the filter is empty)
Passing(c, allowed) ==
    LET Ok(e) == /\ e.idx >= 0
                 /\ e.idx < Len(chunks)
                 /\ (allowed = {} \/ chunks[e.idx + 1].report_id \in allowed)
    IN  SelectSeq(c, Ok)

\* the result search gives for the member e of a ranking
ResultOf(e) ==
    LET chunk == chunks[e.idx + 1]
    IN  [score |-> e.score, text |-> chunk.text, report_id |-> chunk.report_id,
         report_name |-> chunk.report_name, page |-> chunk.page]

\* a search that went as far as the index has returned
Searched(t) ==
    /\ r[t].pc = "done"
    /\ r[t].op = "search"
    /\ r[t].outcome = "ok"
    /\ index # None
    /\ chunks # <<>>

\* C17: what a search with top_k >= 1 returns on a store that is not empty
\* is, for one ranking of the max(3 * top_k, top_k) best rows of the index,
\* the first top_k of its members that pass the report filter, in the
\* order of the ranking; so it has at most top_k entries, in descending
\* order of score.
C17_TopKOfOverfetch ==
    \A t \in Readers :
        (Searched(t) /\ r[t].top_k >= 1)
        => LET ix  == Val(index)
               res == r[t].results
           IN  /\ Len(res) <= r[t].top_k
               /\ \A i, j \in 1..Len(res) :
                     i < j => ScoreGE(res[i].score, res[j].score)
               /\ \E c \in Rankings(ix.rows, embed_text(r[t].query, ix.d),
                                     1..Len(ix.rows),
                                     Max(3 * r[t].top_k, r[t].top_k)) :
                     LET pass == Passing(c, r[t].allowed)
                     IN  res = [i \in 1..Min(r[t].top_k, Len(pass)) |->
                                   ResultOf(pass[i])]

\* after add_report calls that all succeeded, a filtered search has returned
\* fewer than top_k results (none) from an index of more rows than it asks
\* for, while the store holds top_k chunks or more of the reports of the
\* filter
C17_Witness ==
    \E t \in Readers :
        /\ Searched(t)
        /\ nsucc = nbegun
        /\ Coupled
        /\ r[t].top_k >= 1
        /\ r[t].allowed # {}
        /\ Len(r[t].results) < r[t].top_k
        /\ IndexSize > Max(3 * r[t].top_k, r[t].top_k)
        /\ Cardinality({i \in 1..Len(chunks) :
                            chunks[i].report_id \in r[t].allowed}) >= r[t].top_k

\* C18: a search with no report filter whose query is the text of a chunk
\* of the store returns, as its first result and with the score 1, a chunk
\* of that embedding (that chunk, or one the index cannot tell from it),
\* and no result has a higher score.
C18_IdenticalQueryFirst ==
    \A t \in Readers :
        (/\ Searched(t)
         /\ r[t].top_k >= 1
         /\ r[t].allowed = {}
         /\ \E i \in 1..Len(chunks) : chunks[i].text = r[t].query)
        => LET d   == Val(index).d
               res == r[t].results
           IN  /\ res # <<>>
               /\ res[1].score = [n2 |-> 1, d |-> 1]
               /\ embed_text(res[1].text, d) = embed_text(r[t].query, d)
               /\ \A j \in 1..Len(res) : ScoreGE(res[1].score, res[j].score)

\* C19: in every step the chunk records of before are the first chunk
\* records of after, the index has no fewer vectors than before, and every
\* entry of reports of before is an entry of reports after, unchanged.
C19_AppendOnly ==
    [][/\ Len(chunks') >= Len(chunks)
       /\ SubSeq(chunks', 1, Len(chunks)) = chunks
       /\ IndexSize' >= IndexSize
       /\ \A i \in 1..Len(reports) :
             \E j \in 1..Len(reports') : reports'[j] = reports[i]]_vars

\* the positions of the chunk records of report id
ChunksOf(id) == {i \in 1..Len(chunks) : chunks[i].report_id = id}

\* C20: when no add_report is in progress (and none has failed), every chunk
\* record names, by id and name, an entry of reports; and every entry of
\* reports has between 1 and max_chunks chunk records, at positions next to
\* one another, so that its preview of one character is not empty.
C20_ReportsMatchChunks ==
    (WritersIdle /\ nsucc = nbegun)
    => /\ \A i \in 1..Len(chunks) :
             \E j \in 1..Len(reports) :
                 /\ reports[j].id = chunks[i].report_id
                 /\ reports[j].name = chunks[i].report_name
       /\ \A j \in 1..Len(reports) :
             LET P == ChunksOf(reports[j].id)
             IN  /\ P # {}
                 /\ Cardinality(P) <= max_chunks
                 /\ \A a, b \in P : \A c \in a..b : c \in P
                 /\ PreviewOf(chunks, reports[j].id, 1) # <<>>

\* sub is a run of consecutive characters of text
IsSubstring(sub, text) ==
    \E a \in 0..(Len(text) - Len(sub)) : Slice(text, a, a + Len(sub)) = sub

\* the chunks a call has collected: each is trimmed, longer than 50 and no
\* longer than chunk_chars, and a substring of the trimmed text of the page
\* of its (1-based) page number; the page numbers do not decrease
ChunksWellFormed(me) ==
    /\ \A i \in 1..Len(me.cwp) :
          LET chunk == me.cwp[i][1]
              page  == me.cwp[i][2]
          IN  /\ page \in 1..Len(me.pages)
              /\ chunk # <<>>
              /\ strip(chunk) = chunk
              /\ Len(chunk) > NoiseMin
              /\ Len(chunk) <= chunk_chars
              /\ IsSubstring(chunk, strip(me.pages[page]))
    /\ \A i, j \in 1..Len(me.cwp) : i < j => me.cwp[i][2] <= me.cwp[j][2]

\* C21: after every step the chunks a call of add_report has collected are
\* trimmed substrings, of more than 50 and at most chunk_chars characters,
\* of the trimmed text of the page they name by its 1-based index, with
\* page numbers that do not decrease; each chunk record appended has the
\* text and the page of its chunk; and the report's entry counts every
\* page of the call, blank ones included.
C21_ChunksFromTheirPages ==
    [][\A t \in Writers :
          /\ ChunksWellFormed(w'[t])
          /\ (w[t].pc = "append_do" /\ Len(chunks') = Len(chunks) + 1)
             => /\ chunks'[Len(chunks')].text = w[t].cwp[w[t].k][1]
                /\ chunks'[Len(chunks')].page = w[t].cwp[w[t].k][2]
          /\ (w[t].pc = "record" /\ w'[t].pc = "done")
             => \E j \in 1..Len(reports') :
                    /\ reports'[j].id = w[t].report_id
                    /\ reports'[j].pages = Len(w[t].pages)]_vars

\* a report of a blank page and a long one is in the store: its entry
\* counts two pages, its chunks are of page 2, and one of them is shorter
\* than its window because the window began with a blank
C21_Witness ==
    \E j \in 1..Len(reports) :
        /\ reports[j].pages = 2
        /\ \E i \in 1..Len(chunks) :
              /\ chunks[i].report_id = reports[j].id
              /\ chunks[i].page = 2
              /\ Len(chunks[i].text) < chunk_chars
        /\ \A i \in 1..Len(chunks) :
              chunks[i].report_id = reports[j].id => chunks[i].page = 2

====
